---- MODULE Spec2Model ----
(***************************************************************************)
(* Model of fanal/ana/ana_functions.py: get_new_energies,                  *)
(* get_voxel_track_relations and process_tracks.                           *)
(*                                                                         *)
(* Each function is a pure transformation of its arguments.  The model     *)
(* has one specification per function: its Init draws the arguments from   *)
(* bounded sets and its actions are the iterations of the function's       *)
(* loops, ending in the return.                                            *)
(*                                                                         *)
(* Representation.  Energies and coordinates are integers.  A distance is  *)
(* represented by its square (the radicand of np.sqrt): the square root is *)
(* strictly increasing on the integers used, so dist < min_dist holds      *)
(* exactly when the squares compare the same way.  The index label of the  *)
(* n-th row of event_voxels is n (labels are unique within an event).  A   *)
(* Graph is the sequence of its nodes in iteration order; a reference to   *)
(* the Graph event_tracks[j] is the Python index j (from 0).               *)
(***************************************************************************)
EXTENDS Integers, Sequences, FiniteSets, TLC

VARIABLES event_voxels, event_tracks, track_Eth, pc, it,
          negl_neig_pairs, neig_index, new_energies,
          voxel_tracks, event_tracks_withE

vars == <<event_voxels, event_tracks, track_Eth, pc, it,
          negl_neig_pairs, neig_index, new_energies,
          voxel_tracks, event_tracks_withE>>

----------------------------------------------------------------------------
(* Bounds of the model *)

MaxVoxels == 3

MaxRelVoxels == 2

MaxRelTracks == 2

MaxTracks == 3

MaxNodes == 2

MaxEth == 4

(* Initial value of min_dist in get_new_energies *)
min_dist == 1000

(* Marker appended for a negligible voxel (np.nan): no track index *)
NaN == -1

Energies == {1, 2}

(* Positions of the voxels given to get_new_energies: two points at        *)
(* distance 1 from the origin, and two at distance min_dist from it.       *)
Positions == { <<0, 0, 0>>, <<1, 0, 0>>, <<0, 1, 0>>,
               <<min_dist, 0, 0>>, <<0, 0, min_dist>> }

(* Positions of the voxels and nodes given to get_voxel_track_relations *)
RelPositions == { <<0, 0, 0>>, <<1, 0, 0>> }

SeqsUpTo(S, n) == UNION { [1..m -> S] : m \in 0..n }

NonEmptySeqsUpTo(S, n) == UNION { [1..m -> S] : m \in 1..n }

VoxelsAt(P, Es, Flags) ==
    { [X |-> p[1], Y |-> p[2], Z |-> p[3], E |-> e, negli |-> b] :
        p \in P, e \in Es, b \in Flags }

NodesAt(P, Es) ==
    { [X |-> p[1], Y |-> p[2], Z |-> p[3], E |-> e] : p \in P, e \in Es }

----------------------------------------------------------------------------
(* Helpers shared by the three functions *)

RECURSIVE SumSeq(_)
SumSeq(s) == IF s = <<>> THEN 0 ELSE Head(s) + SumSeq(Tail(s))

Reverse(s) == [n \in 1..Len(s) |-> s[Len(s) + 1 - n]]

InSeq(x, s) == \E n \in 1..Len(s) : s[n] = x

----------------------------------------------------------------------------
(* get_new_energies(event_voxels) *)

(* negl_voxels.index: the labels of the rows with negli == True, in order *)
negl_voxels ==
    SelectSeq([n \in 1..Len(event_voxels) |-> n],
              LAMBDA n : event_voxels[n].negli = TRUE)

(* The radicand of dist: the squared Euclidean distance of two rows *)
dist(a, b) ==
      (a.X - b.X) * (a.X - b.X)
    + (a.Y - b.Y) * (a.Y - b.Y)
    + (a.Z - b.Z) * (a.Z - b.Z)

(* The inner loop over event_voxels.iterrows() from row j on, for the      *)
(* negligible voxel i, with the current min_dist (squared) and             *)
(* closest_index; its value is the closest_index the loop ends with.       *)
RECURSIVE closest_scan(_, _, _, _)
closest_scan(i, j, cur_min, closest_index) ==
    IF j > Len(event_voxels) THEN closest_index
    ELSE IF /\ i # j
            /\ ~ InSeq(j, negl_voxels)
            /\ dist(event_voxels[i], event_voxels[j]) < cur_min
         THEN closest_scan(i, j + 1,
                           dist(event_voxels[i], event_voxels[j]), j)
         ELSE closest_scan(i, j + 1, cur_min, closest_index)

(* One iteration of the loop over the negligible voxels: min_dist = 1000,  *)
(* closest_index = i, then the inner loop.                                 *)
closest_neighbour(i) == closest_scan(i, 1, min_dist * min_dist, i)

(* sum(event_voxels.loc[pair[0]].E for pair in negl_neig_pairs             *)
(*     if i == pair[1])                                                    *)
RECURSIVE extraE(_, _)
extraE(i, pairs) ==
    IF pairs = <<>> THEN 0
    ELSE (IF Head(pairs)[2] = i THEN event_voxels[Head(pairs)[1]].E ELSE 0)
         + extraE(i, Tail(pairs))

new_energy_swapped(i) ==
    IF ~ InSeq(i, negl_voxels) THEN 0
    ELSE IF InSeq(i, neig_index)
         THEN event_voxels[i].E + extraE(i, negl_neig_pairs)
         ELSE event_voxels[i].E

(* The value appended to new_energies for the row i *)
new_energy(i) ==
    IF InSeq(i, negl_voxels) THEN 0
    ELSE IF InSeq(i, neig_index)
         THEN event_voxels[i].E + extraE(i, negl_neig_pairs)
         ELSE event_voxels[i].E

InitEnergies ==
    /\ event_voxels \in SeqsUpTo(VoxelsAt(Positions, Energies, BOOLEAN),
                                 MaxVoxels)
    /\ event_tracks = <<>>
    /\ track_Eth = 0
    /\ pc = "closest"
    /\ it = 1
    /\ negl_neig_pairs = <<>>
    /\ neig_index = <<>>
    /\ new_energies = <<>>
    /\ voxel_tracks = <<>>
    /\ event_tracks_withE = <<>>

(* for i, negl_voxel in negl_voxels.iterrows(): one iteration *)
FindClosest ==
    /\ pc = "closest"
    /\ it <= Len(negl_voxels)
    /\ LET i == negl_voxels[it]
           closest_index == closest_neighbour(i)
       IN  /\ negl_neig_pairs' = Append(negl_neig_pairs, <<i, closest_index>>)
           /\ neig_index' = Append(neig_index, closest_index)
    /\ it' = it + 1
    /\ UNCHANGED <<event_voxels, event_tracks, track_Eth, pc, new_energies,
                   voxel_tracks, event_tracks_withE>>

(* The loop over the negligible voxels is exhausted *)
EndClosest ==
    /\ pc = "closest"
    /\ it > Len(negl_voxels)
    /\ pc' = "energies"
    /\ it' = 1
    /\ UNCHANGED <<event_voxels, event_tracks, track_Eth, negl_neig_pairs,
                   neig_index, new_energies, voxel_tracks,
                   event_tracks_withE>>

(* for i, event_voxel in event_voxels.iterrows(): one iteration *)
AppendEnergy ==
    /\ pc = "energies"
    /\ it <= Len(event_voxels)
    /\ new_energies' = Append(new_energies, new_energy(it))
    /\ it' = it + 1
    /\ UNCHANGED <<event_voxels, event_tracks, track_Eth, pc,
                   negl_neig_pairs, neig_index, voxel_tracks,
                   event_tracks_withE>>

(* return new_energies *)
ReturnEnergies ==
    /\ pc = "energies"
    /\ it > Len(event_voxels)
    /\ pc' = "energies_returned"
    /\ UNCHANGED <<event_voxels, event_tracks, track_Eth, it,
                   negl_neig_pairs, neig_index, new_energies, voxel_tracks,
                   event_tracks_withE>>

NextEnergies == FindClosest \/ EndClosest \/ AppendEnergy \/ ReturnEnergies

SpecEnergies == InitEnergies /\ [][NextEnergies]_vars

----------------------------------------------------------------------------
(* Properties of get_new_energies *)

EnergiesReturned == pc = "energies_returned"

Labels == 1..Len(event_voxels)

NegligibleLabels == { n \in Labels : event_voxels[n].negli }

SignificantLabels == Labels \ NegligibleLabels

InputE == [n \in Labels |-> event_voxels[n].E]

(* The energy of the negligible voxels that the routing f sends to t *)
RoutedE(f, t) ==
    SumSeq([n \in Labels |->
              IF n \in NegligibleLabels /\ f[n] = t
              THEN event_voxels[n].E ELSE 0])

(* The smallest squared distance from the voxel i to a significant voxel *)
MinSignificantDist(i) ==
    CHOOSE d \in { dist(event_voxels[i], event_voxels[t]) :
                     t \in SignificantLabels } :
        \A t \in SignificantLabels :
            d <= dist(event_voxels[i], event_voxels[t])

(* The significant voxels at that smallest distance from the voxel i *)
NearestSignificant(i) ==
    { t \in SignificantLabels :
        dist(event_voxels[i], event_voxels[t]) = MinSignificantDist(i) }

(* The first of them in the order of event_voxels *)
FirstNearest(i) ==
    CHOOSE t \in NearestSignificant(i) :
        \A u \in NearestSignificant(i) : t <= u

(* C1: the sum of the energies returned by get_new_energies equals the sum *)
(* of the energies of the input voxels, for any event voxel set.           *)
C1_EnergyConserved ==
    EnergiesReturned => SumSeq(new_energies) = SumSeq(InputE)

(* C2: in the result every negligible voxel has energy 0, and the energy   *)
(* of every negligible voxel is added to the output energy of exactly one  *)
(* non-negligible voxel: the output is the input with each negligible      *)
(* voxel's energy moved to the significant voxel some routing gives it.    *)
C2_EachNegligibleRoutedOnce ==
    EnergiesReturned =>
        /\ Len(new_energies) = Len(event_voxels)
        /\ \A n \in NegligibleLabels : new_energies[n] = 0
        /\ \E f \in [NegligibleLabels -> SignificantLabels] :
              \A t \in SignificantLabels :
                  new_energies[t] = event_voxels[t].E + RoutedE(f, t)

(* C3: when the event has a significant voxel, the output energy of each   *)
(* significant voxel is its own energy plus the energies of the negligible *)
(* voxels whose minimum-distance significant voxel it is.                  *)
C3_RoutedToNearest ==
    (EnergiesReturned /\ SignificantLabels # {}) =>
        /\ Len(new_energies) = Len(event_voxels)
        /\ \A t \in SignificantLabels :
              new_energies[t] =
                  event_voxels[t].E
                  + RoutedE([n \in NegligibleLabels |-> FirstNearest(n)], t)

(* C4: if no voxel is negligible, the returned list has the length and the *)
(* order of the input and its i-th element is the i-th voxel's energy.     *)
C4_NoNegligibleNoChange ==
    (EnergiesReturned /\ NegligibleLabels = {}) => new_energies = InputE

C4_Witness ==
    /\ EnergiesReturned
    /\ NegligibleLabels = {}
    /\ Len(event_voxels) >= 2
    /\ event_voxels[1].E # event_voxels[2].E
    /\ new_energies = InputE

(* C10: when several significant voxels are at the same minimum distance   *)
(* from a negligible voxel, the target chosen for it is the first of them  *)
(* in the order of event_voxels.                                           *)
C10_FirstOfEquidistantChosen ==
    \A p \in 1..Len(negl_neig_pairs) :
        LET i == negl_neig_pairs[p][1]
        IN  (SignificantLabels # {}
             /\ Cardinality(NearestSignificant(i)) >= 2)
            => negl_neig_pairs[p][2] = FirstNearest(i)

----------------------------------------------------------------------------
(* get_voxel_track_relations(event_voxels, event_tracks) *)

(* (X, Y, Z) of a row of event_voxels or of a node of a track *)
pos(v) == <<v.X, v.Y, v.Z>>

(* for node in event_tracks[j].nodes(): voxel_pos == node_pos for a node *)
node_in_track(voxel_pos, j) ==
    \E n \in 1..Len(event_tracks[j + 1]) :
        voxel_pos = pos(event_tracks[j + 1][n])

RECURSIVE scan_tracks_no_break(_, _)
scan_tracks_no_break(voxel_pos, j) ==
    IF j >= Len(event_tracks) THEN <<>>
    ELSE IF node_in_track(voxel_pos, j)
         THEN <<j>> \o scan_tracks_no_break(voxel_pos, j + 1)
         ELSE scan_tracks_no_break(voxel_pos, j + 1)

(* for j in range(len(event_tracks)), from track j on: what is appended    *)
(* to voxel_tracks.  A match appends j and leaves both loops.              *)
RECURSIVE scan_tracks(_, _)
scan_tracks(voxel_pos, j) ==
    IF j >= Len(event_tracks) THEN <<>>
    ELSE IF node_in_track(voxel_pos, j)
         THEN <<j>>
         ELSE scan_tracks(voxel_pos, j + 1)

voxel_entries_flag_ignored(event_voxel) ==
    scan_tracks(pos(event_voxel), 0)

(* The body of the loop over the voxels: what it appends to voxel_tracks *)
voxel_entries(event_voxel) ==
    IF ~ event_voxel.negli
    THEN scan_tracks(pos(event_voxel), 0)
    ELSE <<NaN>>

InitRelations ==
    /\ event_voxels \in SeqsUpTo(VoxelsAt(RelPositions, {1}, BOOLEAN),
                                 MaxRelVoxels)
    /\ event_tracks \in
           SeqsUpTo(NonEmptySeqsUpTo(NodesAt(RelPositions, {1}), MaxNodes),
                    MaxRelTracks)
    /\ track_Eth = 0
    /\ pc = "relations"
    /\ it = 1
    /\ negl_neig_pairs = <<>>
    /\ neig_index = <<>>
    /\ new_energies = <<>>
    /\ voxel_tracks = <<>>
    /\ event_tracks_withE = <<>>

(* for i, event_voxel in event_voxels.iterrows(): one iteration *)
RelateVoxel ==
    /\ pc = "relations"
    /\ it <= Len(event_voxels)
    /\ voxel_tracks' = voxel_tracks \o voxel_entries(event_voxels[it])
    /\ it' = it + 1
    /\ UNCHANGED <<event_voxels, event_tracks, track_Eth, pc,
                   negl_neig_pairs, neig_index, new_energies,
                   event_tracks_withE>>

(* return voxel_tracks *)
ReturnRelations ==
    /\ pc = "relations"
    /\ it > Len(event_voxels)
    /\ pc' = "relations_returned"
    /\ UNCHANGED <<event_voxels, event_tracks, track_Eth, it,
                   negl_neig_pairs, neig_index, new_energies, voxel_tracks,
                   event_tracks_withE>>

NextRelations == RelateVoxel \/ ReturnRelations

SpecRelations == InitRelations /\ [][NextRelations]_vars

----------------------------------------------------------------------------
(* Properties of get_voxel_track_relations *)

RelationsReturned == pc = "relations_returned"

TrackIndices == 0..(Len(event_tracks) - 1)

(* The tracks with a node at exactly the position of the voxel v *)
MatchingTracks(v) ==
    { j \in TrackIndices :
        \E n \in 1..Len(event_tracks[j + 1]) :
            /\ event_tracks[j + 1][n].X = v.X
            /\ event_tracks[j + 1][n].Y = v.Y
            /\ event_tracks[j + 1][n].Z = v.Z }

FirstMatchingTrack(v) ==
    CHOOSE j \in MatchingTracks(v) : \A k \in MatchingTracks(v) : j <= k

(* The loop is about to handle the voxel event_voxels[it] *)
AtVoxel == pc = "relations" /\ it <= Len(event_voxels)

(* C5: the returned list has one entry per input voxel, in voxel order:    *)
(* the i-th entry is the track index of the i-th voxel, or the "no track"  *)
(* marker, also for a significant voxel that matches no node of any track. *)
C5_OneEntryPerVoxel ==
    RelationsReturned =>
        /\ Len(voxel_tracks) = Len(event_voxels)
        /\ \A n \in 1..Len(event_voxels) :
              voxel_tracks[n] =
                  IF event_voxels[n].negli
                       \/ MatchingTracks(event_voxels[n]) = {}
                  THEN NaN
                  ELSE FirstMatchingTrack(event_voxels[n])

(* C6: a negligible voxel contributes exactly one "no track" marker and    *)
(* never a track, whatever the tracks hold; a significant voxel            *)
(* contributes at most one entry, and that entry is a track index.         *)
C6_NegligibleNeverAssigned ==
    [][ AtVoxel =>
          IF event_voxels[it].negli
          THEN voxel_tracks' = Append(voxel_tracks, NaN)
          ELSE \/ voxel_tracks' = voxel_tracks
               \/ \E j \in TrackIndices :
                      voxel_tracks' = Append(voxel_tracks, j) ]_vars

C6_Witness ==
    /\ RelationsReturned
    /\ Len(event_voxels) = 2
    /\ event_voxels[1].negli
    /\ ~ event_voxels[2].negli
    /\ MatchingTracks(event_voxels[1]) # {}
    /\ MatchingTracks(event_voxels[2]) # {}
    /\ voxel_tracks = <<NaN, FirstMatchingTrack(event_voxels[2])>>

(* C9: for a significant voxel the tracks are scanned in the given order   *)
(* and only the first match is recorded: the entry is the smallest index j *)
(* of a track with a node at exactly the voxel's position, and no later    *)
(* track with such a node is recorded.                                     *)
C9_FirstMatchOnly ==
    [][ (/\ AtVoxel
         /\ ~ event_voxels[it].negli
         /\ MatchingTracks(event_voxels[it]) # {})
        => voxel_tracks' =
               Append(voxel_tracks, FirstMatchingTrack(event_voxels[it]))
      ]_vars

C9_Witness ==
    /\ RelationsReturned
    /\ Len(event_voxels) = 2
    /\ ~ event_voxels[1].negli
    /\ ~ event_voxels[2].negli
    /\ MatchingTracks(event_voxels[1]) = {0, 1}
    /\ MatchingTracks(event_voxels[2]) = {1}
    /\ voxel_tracks = <<0, 1>>

----------------------------------------------------------------------------
(* process_tracks(event_tracks, track_Eth) *)

(* track_E = sum(voxel.E for voxel in event_tracks[i]) *)
track_energy(track) == SumSeq([n \in 1..Len(track) |-> track[n].E])

(* track_length of invisible_cities.reco.paolina_functions, which is not   *)
(* part of this repository: process_tracks stores its value in the tuple   *)
(* and never reads it.  The value is left uninterpreted: the application   *)
(* of the function to the track.                                           *)
track_length(track) == [length_of |-> track]

above_threshold_strict(track_E, Eth) == track_E > Eth

(* if track_E >= track_Eth *)
above_threshold(track_E, Eth) == track_E >= Eth

(* Insertion of the tuple x into the sequence s, sorted by item 0, behind  *)
(* the tuples of s whose item 0 is not greater.                            *)
RECURSIVE insert_sorted(_, _)
insert_sorted(x, s) ==
    IF s = <<>> THEN <<x>>
    ELSE IF x[1] < Head(s)[1]
         THEN <<x>> \o s
         ELSE <<Head(s)>> \o insert_sorted(x, Tail(s))

(* Python's stable ascending sort with key=itemgetter(0) *)
RECURSIVE stable_sort(_)
stable_sort(s) ==
    IF s = <<>> THEN <<>>
    ELSE insert_sorted(s[Len(s)], stable_sort(SubSeq(s, 1, Len(s) - 1)))

sorted_then_reversed(s) == Reverse(stable_sort(s))

(* sorted(s, key=itemgetter(0), reverse=True): the list is reversed,       *)
(* sorted by the stable ascending sort, and reversed again.                *)
sorted_reverse(s) == Reverse(stable_sort(Reverse(s)))

InitTracks ==
    /\ event_voxels = <<>>
    /\ event_tracks \in
           SeqsUpTo(NonEmptySeqsUpTo(NodesAt({<<0, 0, 0>>}, Energies),
                                     MaxNodes),
                    MaxTracks)
    /\ track_Eth \in 0..MaxEth
    /\ pc = "tracks"
    /\ it = 1
    /\ negl_neig_pairs = <<>>
    /\ neig_index = <<>>
    /\ new_energies = <<>>
    /\ voxel_tracks = <<>>
    /\ event_tracks_withE = <<>>

(* for i in range(len(event_tracks)): one iteration, i = it - 1 *)
ScoreTrack ==
    /\ pc = "tracks"
    /\ it <= Len(event_tracks)
    /\ LET track_E == track_energy(event_tracks[it])
       IN  IF above_threshold(track_E, track_Eth)
           THEN event_tracks_withE' =
                    Append(event_tracks_withE,
                           <<track_E, track_length(event_tracks[it]), it - 1>>)
           ELSE event_tracks_withE' = event_tracks_withE
    /\ it' = it + 1
    /\ UNCHANGED <<event_voxels, event_tracks, track_Eth, pc,
                   negl_neig_pairs, neig_index, new_energies, voxel_tracks>>

(* The loop is exhausted: sort the tuples and return them *)
SortAndReturn ==
    /\ pc = "tracks"
    /\ it > Len(event_tracks)
    /\ event_tracks_withE' = sorted_reverse(event_tracks_withE)
    /\ pc' = "tracks_returned"
    /\ UNCHANGED <<event_voxels, event_tracks, track_Eth, it,
                   negl_neig_pairs, neig_index, new_energies, voxel_tracks>>

NextTracks == ScoreTrack \/ SortAndReturn

SpecTracks == InitTracks /\ [][NextTracks]_vars

----------------------------------------------------------------------------
(* Properties of process_tracks *)

TracksReturned == pc = "tracks_returned"

(* The total energy of the input track with the Python index j *)
TotalE(j) == SumSeq([n \in 1..Len(event_tracks[j + 1]) |->
                       event_tracks[j + 1][n].E])

InputTracks == 0..(Len(event_tracks) - 1)

ReturnedTracks ==
    { event_tracks_withE[n][3] : n \in 1..Len(event_tracks_withE) }

C8_SortedDescendingStable ==
    TracksReturned =>
        \A a, b \in 1..Len(event_tracks_withE) :
            a < b =>
                /\ event_tracks_withE[a][1] >= event_tracks_withE[b][1]
                /\ event_tracks_withE[a][1] = event_tracks_withE[b][1]
                       => event_tracks_withE[a][3] < event_tracks_withE[b][3]

C8_Witness ==
    /\ TracksReturned
    /\ Len(event_tracks) = 3
    /\ TotalE(0) = TotalE(2)
    /\ TotalE(1) > TotalE(0)
    /\ Len(event_tracks_withE) = 3
    /\ event_tracks_withE[1][3] = 1
    /\ event_tracks_withE[2][3] = 0
    /\ event_tracks_withE[3][3] = 2

====
